---- MODULE Spec2Model ----
(***************************************************************************)
(* GTaskScheduler: a cron-style scheduler with a jobs registry kept in     *)
(* SQLite, one goroutine per dispatched execution and two record sinks     *)
(* (tasks table, scheduler.log).                                           *)
(*                                                                         *)
(* Two programs live in the repository:                                    *)
(*   - the table-backed scheduler (src/scheduler.go lines 1-645), whose    *)
(*     behaviours are Spec;                                                *)
(*   - the file-backed scheduler (src/scheduler.go lines 647-1234), which  *)
(*     loads cron_jobs.txt at startup; its behaviours are SpecFile.        *)
(* Both share job(), the recorder and the cron library's tick.             *)
(***************************************************************************)
EXTENDS Integers, Sequences, FiniteSets, TLC

VARIABLES
    jobs,        \* the jobs table: sequence of rows, job_id = index
    cronFile,    \* cron_jobs.txt of the file-backed program: sequence of lines
    clocks,      \* the started cron instances of the process, clocks[1] is main's
    execs,       \* the live goroutines running job(cmd)
    tasks,       \* the tasks table: sequence of rows, id = index
    log,         \* scheduler.log: sequence of log entries
    taskLogs,    \* ./logs/<uid>.log of the per-task log file program: uid -> content
    mu,          \* holder of the global mutex mu (0 = unlocked)
    req,         \* per HTTP handler goroutine: the call in progress
    resp,        \* the status code of the last HTTP response written (0 = none)
    now,         \* number of minute boundaries passed (index of the last tick)
    nextG,       \* number of goroutines dispatched so far
    boots,       \* number of process starts after the first
    offAtTick    \* history: the job_ids that were disabled when the last tick fired

vars == <<jobs, cronFile, clocks, execs, tasks, log, taskLogs, mu, req, resp, now,
          nextG, boots, offAtTick>>

(***************************************************************************)
(* Bounds of the model.                                                    *)
(***************************************************************************)
MaxJobs == 2
MaxTicks == 2
MaxExec == 4
MaxHandlers == 2
MaxBoots == 1
MaxDays == 2
MaxRecords == 3
MaxLoad == 3

Handlers == 1..MaxHandlers

(***************************************************************************)
(* Inputs.  A cron expression is modelled by its whitespace-separated      *)
(* fields (strings.Fields of the text); "" is the empty sequence.          *)
(***************************************************************************)
EveryMinute == <<"*", "*", "*", "*", "*">>
AtTwoThirtyOne == <<"31", "2", "*", "*", "*">>
MinuteSixty == <<"60", "*", "*", "*", "*">>
FourFields == <<"*", "*", "*", "*">>
EmptyText == <<>>

ValidCrons == {EveryMinute, AtTwoThirtyOne}
MalformedCrons == {MinuteSixty, FourFields}
CronInputs == ValidCrons \cup MalformedCrons \cup {EmptyText}

Names == {"a", "b"}
Commands == {"echo ok", "exit 1"}
Descriptions == {"d"}
\* the requests considered are POSTs
Methods == {"POST"}

Form(n, x, c, d) == [job_name |-> n, cron_expr |-> x, command |-> c, job_description |-> d]

\* complete forms: two names, well-formed and malformed expressions; and one
\* form per empty field
CompleteForms ==
    {Form("a", x, "echo ok", "d") : x \in ValidCrons \cup MalformedCrons} \cup
    {Form("b", x, "exit 1", "d") : x \in {EveryMinute, MinuteSixty}}

IncompleteForms ==
    {Form("", EveryMinute, "echo ok", "d"), Form("a", EmptyText, "echo ok", "d"),
     Form("a", EveryMinute, "", "d"), Form("a", EveryMinute, "echo ok", "")}

Forms == CompleteForms \cup IncompleteForms

\* the job_id form value of /delete-job, as text: the ids of the rows there can
\* be, one more, a text that is no number, and the empty text
IdText == <<"1", "2", "3", "4">>
JobIdInputs == {"", "x"} \cup {IdText[i] : i \in 1..(MaxJobs + 1)}

(***************************************************************************)
(* Time.  The clock is read at minute resolution: tick k is the k-th       *)
(* minute boundary after the first process start at 02:29 on Saturday      *)
(* 30-12-2023; the calendar covers the two months from that day.           *)
(***************************************************************************)
MinutesPerDay == 1440

Instant(k) ==
    LET m == 149 + k
        day == m \div MinutesPerDay
    IN  [year |-> IF day <= 1 THEN 2023 ELSE 2024,
         month |-> IF day <= 1 THEN 12 ELSE IF day <= 32 THEN 1 ELSE 2,
         dom |-> IF day <= 1 THEN 30 + day ELSE IF day <= 32 THEN day - 1 ELSE day - 32,
         hour |-> (m % MinutesPerDay) \div 60, minute |-> m % 60,
         dow |-> (6 + day) % 7]

\* time.Format("02-01-2006 15:04:05"): day-first text, field by field
FormatTime(t) == <<t.dom, t.month, t.year, t.hour, t.minute, 0>>

(***************************************************************************)
(* The cron library's standard parser and schedule (robfig/cron v3, as     *)
(* cron.New() configures it): exactly five fields, each "*" or a number    *)
(* within the field's bounds.                                              *)
(***************************************************************************)
NumeralValue ==
    ("0" :> 0) @@ ("1" :> 1) @@ ("2" :> 2) @@ ("30" :> 30) @@ ("31" :> 31) @@
    ("59" :> 59) @@ ("60" :> 60)

FieldBounds ==
    <<[lo |-> 0, hi |-> 59], [lo |-> 0, hi |-> 23], [lo |-> 1, hi |-> 31],
      [lo |-> 1, hi |-> 12], [lo |-> 0, hi |-> 6]>>

\* a parser that does not check the field's bounds
FieldParsesAnyNumber(tok, i) == tok = "*" \/ tok \in DOMAIN NumeralValue

FieldParses(tok, i) ==
    \/ tok = "*"
    \/ /\ tok \in DOMAIN NumeralValue
       /\ NumeralValue[tok] >= FieldBounds[i].lo
       /\ NumeralValue[tok] <= FieldBounds[i].hi

ParseStandard(expr) ==
    /\ Len(expr) = 5
    /\ \A i \in 1..5 : FieldParses(expr[i], i)

FieldMatches(tok, v) == tok = "*" \/ NumeralValue[tok] = v

\* a schedule that requires day-of-month and day-of-week both, always
MatchesDomAndDow(expr, t) ==
    /\ FieldMatches(expr[1], t.minute)
    /\ FieldMatches(expr[2], t.hour)
    /\ FieldMatches(expr[4], t.month)
    /\ FieldMatches(expr[3], t.dom) /\ FieldMatches(expr[5], t.dow)

\* SpecSchedule.Next: minute, hour and month must match; day-of-month and
\* day-of-week are both required when either is "*", else either suffices
Matches(expr, t) ==
    /\ FieldMatches(expr[1], t.minute)
    /\ FieldMatches(expr[2], t.hour)
    /\ FieldMatches(expr[4], t.month)
    /\ IF expr[3] = "*" \/ expr[5] = "*"
         THEN FieldMatches(expr[3], t.dom) /\ FieldMatches(expr[5], t.dow)
         ELSE FieldMatches(expr[3], t.dom) \/ FieldMatches(expr[5], t.dow)

(***************************************************************************)
(* The jobs table (initDatabase): job_id INTEGER PRIMARY KEY AUTOINCREMENT,*)
(* job_name TEXT UNIQUE, job_status Boolean DEFAULT 1.  Rows are never     *)
(* deleted, so the next job_id is the number of rows plus one.             *)
(***************************************************************************)
Range(s) == {s[i] : i \in DOMAIN s}

\* a name check that looks at the active rows only
NameExistsAmongActive(tbl, name) ==
    \E i \in DOMAIN tbl : tbl[i].job_name = name /\ tbl[i].job_status = 1

\* SELECT EXISTS(SELECT 1 FROM jobs WHERE job_name = ?)
NameExists(tbl, name) == \E i \in DOMAIN tbl : tbl[i].job_name = name

\* a jobs table without the UNIQUE constraint
UniqueNeverViolated(tbl, name) == FALSE

\* job_name TEXT UNIQUE: the INSERT of a name some row carries is rejected
UniqueViolated(tbl, name) == name \in {tbl[i].job_name : i \in DOMAIN tbl}

\* INSERT INTO jobs (job_name, job_schedule, job_command, job_description, added_at):
\* job_id and job_status take their defaults; added_at is read by nothing and not kept
InsertJob(tbl, f) ==
    Append(tbl, [job_id |-> Len(tbl) + 1,
                 job_name |-> f.job_name,
                 job_schedule |-> f.cron_expr,
                 job_command |-> f.command,
                 job_description |-> f.job_description,
                 job_status |-> 1])

\* job_status = 0 (the file-backed program's table has no such column)
IsDisabled(r) == "job_status" \in DOMAIN r /\ r.job_status = 0

\* ... FROM jobs WHERE job_status = 1
ActiveRows(tbl) == SelectSeq(tbl, LAMBDA r : r.job_status = 1)

\* getJobs: the (job_id, job_name) pairs of the active rows, in table order
getJobs(tbl) ==
    LET act == ActiveRows(tbl)
    IN  [i \in DOMAIN act |-> [JobID |-> act[i].job_id, JobName |-> act[i].job_name]]

\* the job_id text compared with the INTEGER column: numeric text matches the
\* row of that number, any other text matches no row
JobIdOfText == [t \in Range(IdText) |-> CHOOSE i \in DOMAIN IdText : IdText[i] = t]

RowsWithId(tbl, text) ==
    IF text \in DOMAIN JobIdOfText
      THEN {i \in DOMAIN tbl : tbl[i].job_id = JobIdOfText[text]}
      ELSE {}

\* an UPDATE that flips job_status
ToggleRows(tbl, text) ==
    [i \in DOMAIN tbl |->
        IF i \in RowsWithId(tbl, text) THEN [tbl[i] EXCEPT !.job_status = 1 - @]
                                       ELSE tbl[i]]

\* an UPDATE without its WHERE clause
DisableEveryRow(tbl, text) == [i \in DOMAIN tbl |-> [tbl[i] EXCEPT !.job_status = 0]]

\* UPDATE jobs SET job_status = 0 WHERE job_id = ?
DisableRows(tbl, text) ==
    [i \in DOMAIN tbl |->
        IF i \in RowsWithId(tbl, text) THEN [tbl[i] EXCEPT !.job_status = 0]
                                       ELSE tbl[i]]

(***************************************************************************)
(* Cron instances.  An entry is what c.AddFunc stored: the parsed schedule *)
(* and the closure's command; job is history (the row it was made from,    *)
(* 0 for a line of cron_jobs.txt).                                         *)
(***************************************************************************)
Entry(expr, cmd, id) == [schedule |-> expr, command |-> cmd, job |-> id]

\* c.AddFunc(cronExpr, ...): the entries of c afterwards
AddFunc(entries, expr, cmd, id) ==
    IF ParseStandard(expr) THEN Append(entries, Entry(expr, cmd, id)) ELSE entries

\* a loop that returns at the first row the parser rejects
RECURSIVE AddRowsUntilError(_, _)
AddRowsUntilError(entries, rows) ==
    IF rows = <<>> THEN entries
    ELSE IF ~ParseStandard(Head(rows).job_schedule) THEN entries
    ELSE AddRowsUntilError(AddFunc(entries, Head(rows).job_schedule,
                                   Head(rows).job_command, Head(rows).job_id),
                           Tail(rows))

RECURSIVE AddRows(_, _)
AddRows(entries, rows) ==
    IF rows = <<>> THEN entries
    ELSE AddRows(AddFunc(entries, Head(rows).job_schedule, Head(rows).job_command,
                         Head(rows).job_id),
                 Tail(rows))

\* scheduleJobsFromTable(c) on a new cron instance
scheduleJobsFromTable(tbl) == AddRows(<<>>, ActiveRows(tbl))

RECURSIVE Flatten(_)
Flatten(cs) == IF cs = <<>> THEN <<>> ELSE Head(cs).entries \o Flatten(Tail(cs))

\* every entry of every started cron instance
AllEntries == Flatten(clocks)

ArmedJobs == {e.job : e \in Range(AllEntries)}

(***************************************************************************)
(* job(command): the subprocess and the record built from it.              *)
(***************************************************************************)
SpawnFailure == [spawned |-> FALSE, exit |-> -1, out |-> ""]

\* what bash -c command can do: the command's own result, or bash not started
Outcomes(cmd) ==
    {SpawnFailure} \cup
    (CASE cmd = "echo ok" -> {[spawned |-> TRUE, exit |-> 0, out |-> "ok"]}
       [] cmd = "exit 1"  -> {[spawned |-> TRUE, exit |-> 1, out |-> ""]}
       [] OTHER           -> {[spawned |-> TRUE, exit |-> 127, out |-> "not found"]})

\* an error only when the process did not start
StartErrOnly(o) == ~o.spawned

\* err of cmd.CombinedOutput(): non-nil when the process did not start or
\* exited with a non-zero status
CombinedOutputErr(o) == ~o.spawned \/ o.exit # 0

\* status := "Success"; if err != nil { status = "Failure" }
StatusOf(o) == IF CombinedOutputErr(o) THEN "Failure" ELSE "Success"

\* logLine of logJobStatus: one line, plus the two-line error block of a Failure
LogLine(kind, js) ==
    [kind |-> kind, timestamp |-> js.timestamp, status |-> js.status,
     uid |-> js.uid, command |-> js.command,
     output |-> IF kind = "output" THEN js.output ELSE ""]

\* a logger that writes Failure records only
LogLinesOfFailures(js) ==
    IF js.status = "Failure"
      THEN <<LogLine("status", js), LogLine("error", js), LogLine("output", js)>>
      ELSE <<>>

LogLines(js) ==
    <<LogLine("status", js)>>
    \o (IF js.status = "Failure"
          THEN <<LogLine("error", js), LogLine("output", js)>>
          ELSE <<>>)

\* logSchedulerStart's line
StartLine(ts) ==
    [kind |-> "start", timestamp |-> ts, status |-> "", uid |-> 0,
     command |-> "", output |-> ""]

(***************************************************************************)
(* Initial state: main has opened a fresh database and log, scheduled the  *)
(* (empty) jobs table on its cron instance, started it and logged the      *)
(* start.                                                                  *)
(***************************************************************************)
NoForm == [job_name |-> "", cron_expr |-> EmptyText, command |-> "",
           job_description |-> ""]
Idle == [pc |-> "idle", form |-> NoForm]
NoResponse == [code |-> 0, err |-> ""]

Init ==
    /\ jobs = <<>>
    /\ cronFile = <<>>
    /\ clocks = <<[entries |-> scheduleJobsFromTable(<<>>)]>>
    /\ execs = {}
    /\ tasks = <<>>
    /\ log = <<StartLine(FormatTime(Instant(0)))>>
    /\ taskLogs = <<>>
    /\ mu = 0
    /\ req = [h \in Handlers |-> Idle]
    /\ resp = NoResponse
    /\ now = 0
    /\ nextG = 0
    /\ boots = 0
    /\ offAtTick = {}

(***************************************************************************)
(* submitJobHandler (table-backed): validation and the name check, then    *)
(* the INSERT, then the new cron instance.  Each database statement is one *)
(* step; other goroutines run between them.                                *)
(***************************************************************************)
\* a validation that forgets the description
MissingFieldButDescription(f) ==
    f.cron_expr = EmptyText \/ f.command = "" \/ f.job_name = ""

\* cronExpr == "" || command == "" || jobName == "" || jobDescription == ""
MissingField(f) ==
    f.cron_expr = EmptyText \/ f.command = "" \/ f.job_name = ""
        \/ f.job_description = ""

Reply(h, code, err) ==
    /\ req' = [req EXCEPT ![h] = Idle]
    /\ resp' = [code |-> code, err |-> err]

\* the handler up to the name check (the same lines in both programs); a call
\* that passes goes on at pc next
CheckForm(h, m, f, next) ==
    /\ req[h].pc = "idle"
    /\ IF m # "POST"
         THEN Reply(h, 405, "Invalid request method")
       ELSE IF MissingField(f)
         THEN Reply(h, 400, "Missing field")
       ELSE IF NameExists(jobs, f.job_name)
         THEN Reply(h, 400, "Job name already exists")
       ELSE /\ req' = [req EXCEPT ![h] = [pc |-> next, form |-> f]]
            /\ UNCHANGED resp
    /\ UNCHANGED <<taskLogs, jobs, cronFile, clocks, execs, tasks, log, mu, now, nextG,
                   boots, offAtTick>>

SubmitCheck(h, m, f) == CheckForm(h, m, f, "insert")

SubmitInsert(h) ==
    /\ req[h].pc = "insert"
    /\ IF UniqueViolated(jobs, req[h].form.job_name)
         THEN /\ Reply(h, 400, "Error inserting job")
              /\ UNCHANGED jobs
         ELSE /\ Len(jobs) < MaxJobs
              /\ jobs' = InsertJob(jobs, req[h].form)
              /\ req' = [req EXCEPT ![h].pc = "arm"]
              /\ UNCHANGED resp
    /\ UNCHANGED <<taskLogs, cronFile, clocks, execs, tasks, log, mu, now, nextG, boots,
                   offAtTick>>

\* the row the handler inserted (history: the handler does not read its id)
RowOfName(tbl, name) == CHOOSE i \in DOMAIN tbl : tbl[i].job_name = name

\* a new instance that is loaded with every active row of the table
StartNewRescan(cs, expr, cmd, id) ==
    Append(cs, [entries |-> scheduleJobsFromTable(jobs)])

\* c := cron.New(); c.AddFunc(...); if err == nil { c.Start() }: the started
\* instances afterwards
StartNew(cs, expr, cmd, id) ==
    LET es == AddFunc(<<>>, expr, cmd, id)
    IN  IF es # <<>> THEN Append(cs, [entries |-> es]) ELSE cs

SubmitArm(h) ==
    /\ req[h].pc = "arm"
    /\ clocks' = StartNew(clocks, req[h].form.cron_expr, req[h].form.command,
                          RowOfName(jobs, req[h].form.job_name))
    /\ Reply(h, 303, "")
    /\ UNCHANGED <<taskLogs, jobs, cronFile, execs, tasks, log, mu, now, nextG, boots,
                   offAtTick>>

(***************************************************************************)
(* deleteJobHandler: one UPDATE; the cron instances are not touched.       *)
(***************************************************************************)
\* a disable that also deletes the history of the job's command
DeleteJobCascade(h, m, text) ==
    /\ req[h].pc = "idle"
    /\ IF m # "POST"
         THEN /\ Reply(h, 405, "Invalid request method")
              /\ UNCHANGED <<jobs, tasks>>
       ELSE IF text = ""
         THEN /\ Reply(h, 400, "Job ID is required")
              /\ UNCHANGED <<jobs, tasks>>
       ELSE /\ jobs' = DisableRows(jobs, text)
            /\ tasks' = SelectSeq(tasks, LAMBDA t :
                           \A i \in RowsWithId(jobs, text) : jobs[i].job_command # t.command)
            /\ Reply(h, 303, "")
    /\ UNCHANGED <<taskLogs, cronFile, clocks, execs, log, mu, now, nextG, boots, offAtTick>>

DeleteJob(h, m, text) ==
    /\ req[h].pc = "idle"
    /\ IF m # "POST"
         THEN /\ Reply(h, 405, "Invalid request method")
              /\ UNCHANGED jobs
       ELSE IF text = ""
         THEN /\ Reply(h, 400, "Job ID is required")
              /\ UNCHANGED jobs
       ELSE /\ jobs' = DisableRows(jobs, text)
            /\ Reply(h, 303, "")
    /\ UNCHANGED <<taskLogs, cronFile, clocks, execs, tasks, log, mu, now, nextG, boots, offAtTick>>

(***************************************************************************)
(* The cron instances' run loops: at a minute boundary every entry whose   *)
(* schedule matches the minute is started in a goroutine of its own.       *)
(***************************************************************************)
\* a run loop that starts one entry only of those sharing a schedule
DueOnePerSchedule(t) ==
    LET all == SelectSeq(AllEntries, LAMBDA e : Matches(e.schedule, t))
    IN  SelectSeq(all, LAMBDA e : \A x \in Range(all) : x.schedule = e.schedule => x.job >= e.job)

Due(t) == SelectSeq(AllEntries, LAMBDA e : Matches(e.schedule, t))

NoStatus == [uid |-> 0, command |-> "", timestamp |-> <<>>, status |-> "", output |-> ""]

\* a goroutine started for an entry; js is its JobStatus once built, stdout
\* what it has printed to the terminal, ran is history: what the subprocess
\* did.  A goroutine that has returned stays, at pc "done", as history.
NewExec(g, e) ==
    [g |-> g, command |-> e.command, job |-> e.job, pc |-> "run",
     js |-> NoStatus, stdout |-> <<>>, ran |-> SpawnFailure]

\* a run loop that starts no entry while a command is running
TickWaits ==
    /\ now < MaxTicks
    /\ \A e \in execs : e.pc # "run"
    /\ LET due == Due(Instant(now + 1))
       IN  /\ nextG + Len(due) <= MaxExec
           /\ execs' = execs \cup {NewExec(nextG + i, due[i]) : i \in DOMAIN due}
           /\ nextG' = nextG + Len(due)
    /\ now' = now + 1
    /\ offAtTick' = {i \in DOMAIN jobs : IsDisabled(jobs[i])}
    /\ UNCHANGED <<taskLogs, jobs, cronFile, clocks, tasks, log, mu, req, resp, boots>>

\* a run loop that skips an entry whose job has a command still running
TickSkipsRunning ==
    /\ now < MaxTicks
    /\ LET due == SelectSeq(Due(Instant(now + 1)),
                            LAMBDA en : \A e \in execs : e.job = en.job => e.pc # "run")
       IN  /\ nextG + Len(due) <= MaxExec
           /\ execs' = execs \cup {NewExec(nextG + i, due[i]) : i \in DOMAIN due}
           /\ nextG' = nextG + Len(due)
    /\ now' = now + 1
    /\ offAtTick' = {i \in DOMAIN jobs : IsDisabled(jobs[i])}
    /\ UNCHANGED <<taskLogs, jobs, cronFile, clocks, tasks, log, mu, req, resp, boots>>

\* a run loop that stores a row of status "Running" for every entry it starts
FireRecordsStart ==
    /\ LET due == Due(Instant(now + 1))
       IN  /\ nextG + Len(due) <= MaxExec
           /\ execs' = execs \cup {NewExec(nextG + i, due[i]) : i \in DOMAIN due}
           /\ nextG' = nextG + Len(due)
           /\ tasks' = tasks \o
                  [i \in DOMAIN due |->
                     [id |-> Len(tasks) + i, task_uid |-> nextG + i,
                      command |-> due[i].command,
                      timestamp |-> FormatTime(Instant(now + 1)), status |-> "Running",
                      output |-> "", ran |-> SpawnFailure]]
    /\ now' = now + 1
    /\ offAtTick' = {i \in DOMAIN jobs : IsDisabled(jobs[i])}
    /\ UNCHANGED <<taskLogs, jobs, cronFile, clocks, log, mu, req, resp, boots>>

\* run(): on a timer's firing, every entry due is started with "go" (startJob),
\* whatever the goroutines started before are doing
Fire ==
    /\ LET due == Due(Instant(now + 1))
       IN  /\ nextG + Len(due) <= MaxExec
           /\ execs' = execs \cup {NewExec(nextG + i, due[i]) : i \in DOMAIN due}
           /\ nextG' = nextG + Len(due)
    /\ now' = now + 1
    /\ offAtTick' = {i \in DOMAIN jobs : IsDisabled(jobs[i])}
    /\ UNCHANGED <<taskLogs, jobs, cronFile, clocks, tasks, log, mu, req, resp, boots>>

\* the ticks of the first MaxTicks minutes
Tick ==
    /\ now < MaxTicks
    /\ Fire

(***************************************************************************)
(* job(command), one goroutine e: the command runs to completion, the      *)
(* record is built, then logJobStatusToDB and logJobStatus each take mu,   *)
(* write and release it.                                                   *)
(***************************************************************************)
\* the uids generated so far
UsedUids ==
    {tasks[k].task_uid : k \in DOMAIN tasks} \cup {e.js.uid : e \in {x \in execs : x.pc # "run"}}

\* a uid no call has returned yet; the goroutine's number stands for it
NewUid(e) == e.g

\* uuid.New(): a random value.  Uids are only compared for equality, so a new
\* one is either a value no call has returned or one of those already returned
UidChoices(e) == {NewUid(e)} \cup UsedUids

\* the JobStatus literal of job()
BuildStatus(e, o, t, u) ==
    [uid |-> u, command |-> e.command, timestamp |-> FormatTime(t),
     status |-> StatusOf(o), output |-> o.out]

\* a tasks table without the UNIQUE constraint
TaskUidNeverViolated(tbl, uid) == FALSE

\* task_uid TEXT UNIQUE: the INSERT of a uid some row carries is rejected
TaskUidViolated(tbl, uid) == uid \in {tbl[k].task_uid : k \in DOMAIN tbl}

\* INSERT INTO tasks (task_uid, command, timestamp, status, output)
InsertTask(tbl, js, o) ==
    Append(tbl, [id |-> Len(tbl) + 1, task_uid |-> js.uid, command |-> js.command,
                 timestamp |-> js.timestamp, status |-> js.status,
                 output |-> js.output, ran |-> o])

\* a job() that calls logJobStatus only
JobRunLogOnly(e, o, u) ==
    /\ e.pc = "run"
    /\ o \in Outcomes(e.command)
    /\ u \in UidChoices(e)
    /\ execs' = (execs \ {e}) \cup
                {[e EXCEPT !.pc = "log", !.js = BuildStatus(e, o, Instant(now), u), !.ran = o]}
    /\ UNCHANGED <<taskLogs, jobs, cronFile, clocks, tasks, log, mu, req, resp, now, nextG,
                   boots, offAtTick>>

\* cmd.CombinedOutput() returns and the JobStatus is built
JobRun(e, o, u) ==
    /\ e.pc = "run"
    /\ o \in Outcomes(e.command)
    /\ u \in UidChoices(e)
    /\ execs' = (execs \ {e}) \cup
                {[e EXCEPT !.pc = "db", !.js = BuildStatus(e, o, Instant(now), u), !.ran = o]}
    /\ UNCHANGED <<taskLogs, jobs, cronFile, clocks, tasks, log, mu, req, resp, now, nextG,
                   boots, offAtTick>>

\* what a goroutine prints to the terminal
InsertError == "Error inserting into database"
Inserted == "Inserted job status into database"
LogLinePrinted == "logLine"
LogError == "Error writing to log file"

\* a lock that is taken without waiting for its holder
DbLockNoWait(e) ==
    /\ e.pc = "db"
    /\ mu' = e.g
    /\ execs' = (execs \ {e}) \cup {[e EXCEPT !.pc = "dbw"]}
    /\ UNCHANGED <<taskLogs, jobs, cronFile, clocks, tasks, log, req, resp, now, nextG,
                   boots, offAtTick>>

\* logJobStatusToDB: mu.Lock()
DbLock(e) ==
    /\ e.pc = "db"
    /\ mu = 0
    /\ mu' = e.g
    /\ execs' = (execs \ {e}) \cup {[e EXCEPT !.pc = "dbw"]}
    /\ UNCHANGED <<taskLogs, jobs, cronFile, clocks, tasks, log, req, resp, now, nextG,
                   boots, offAtTick>>

\* a recorder in which a failed INSERT ends job(): the log is not written
DbInsertAborts(e, dbErr) ==
    /\ e.pc = "dbw"
    /\ mu = e.g
    /\ IF dbErr \/ TaskUidViolated(tasks, e.js.uid)
         THEN /\ UNCHANGED tasks
              /\ execs' = (execs \ {e}) \cup
                     {[e EXCEPT !.pc = "done", !.stdout = Append(@, InsertError)]}
         ELSE /\ tasks' = InsertTask(tasks, e.js, e.ran)
              /\ execs' = (execs \ {e}) \cup
                     {[e EXCEPT !.pc = "log", !.stdout = Append(@, Inserted)]}
    /\ mu' = 0
    /\ UNCHANGED <<taskLogs, jobs, cronFile, clocks, log, req, resp, now, nextG, boots,
                   offAtTick>>

\* logJobStatusToDB with mu held: db.Exec fails for a reason of the database's
\* own (dbErr) or because of the UNIQUE constraint, and the error is printed;
\* or the row is inserted.  Either way the function returns, releasing mu.
DbInsert(e, dbErr) ==
    /\ e.pc = "dbw"
    /\ mu = e.g
    /\ IF dbErr \/ TaskUidViolated(tasks, e.js.uid)
         THEN /\ UNCHANGED tasks
              /\ execs' = (execs \ {e}) \cup
                     {[e EXCEPT !.pc = "log", !.stdout = Append(@, InsertError)]}
         ELSE /\ tasks' = InsertTask(tasks, e.js, e.ran)
              /\ execs' = (execs \ {e}) \cup
                     {[e EXCEPT !.pc = "log", !.stdout = Append(@, Inserted)]}
    /\ mu' = 0
    /\ UNCHANGED <<taskLogs, jobs, cronFile, clocks, log, req, resp, now, nextG, boots,
                   offAtTick>>

LogLock(e) ==
    /\ e.pc = "log"
    /\ mu = 0
    /\ mu' = e.g
    /\ execs' = (execs \ {e}) \cup {[e EXCEPT !.pc = "logw"]}
    /\ UNCHANGED <<taskLogs, jobs, cronFile, clocks, tasks, log, req, resp, now, nextG,
                   boots, offAtTick>>

\* logJobStatus with mu held: the line is printed, then logFile.WriteString
\* appends it, or fails (ioErr) and the error is printed
LogWrite(e, ioErr) ==
    /\ e.pc = "logw"
    /\ mu = e.g
    /\ IF ioErr
         THEN /\ UNCHANGED log
              /\ execs' = (execs \ {e}) \cup
                     {[e EXCEPT !.pc = "done",
                                !.stdout = @ \o <<LogLinePrinted, LogError>>]}
         ELSE /\ log' = log \o LogLines(e.js)
              /\ execs' = (execs \ {e}) \cup
                     {[e EXCEPT !.pc = "done", !.stdout = Append(@, LogLinePrinted)]}
    /\ mu' = 0
    /\ UNCHANGED <<taskLogs, jobs, cronFile, clocks, tasks, req, resp, now, nextG, boots,
                   offAtTick>>

(***************************************************************************)
(* The process ends (its goroutines, cron instances and requests with it)  *)
(* and main runs again on the same database and log: lines 628-631.        *)
(***************************************************************************)
Restart ==
    /\ boots < MaxBoots
    /\ boots' = boots + 1
    /\ clocks' = <<[entries |-> scheduleJobsFromTable(jobs)]>>
    /\ execs' = {}
    /\ mu' = 0
    /\ req' = [h \in Handlers |-> Idle]
    /\ resp' = NoResponse
    /\ log' = Append(log, StartLine(FormatTime(Instant(now))))
    /\ UNCHANGED <<taskLogs, jobs, cronFile, tasks, now, nextG, offAtTick>>

AnyOutcome == UNION {Outcomes(c) : c \in Commands}

(***************************************************************************)
(* The table-backed scheduler, registry and clock: the handlers, the tick  *)
(* and the restart.  A dispatched goroutine stays in execs: its own steps  *)
(* (SpecExec) write tasks and log only, which nothing here reads.          *)
(***************************************************************************)
Next ==
    \/ \E h \in Handlers, m \in Methods, f \in Forms : SubmitCheck(h, m, f)
    \/ \E h \in Handlers : SubmitInsert(h)
    \/ \E h \in Handlers : SubmitArm(h)
    \/ \E h \in Handlers, m \in Methods, text \in JobIdInputs : DeleteJob(h, m, text)
    \/ Tick
    \/ Restart

Spec == Init /\ [][Next]_vars

(***************************************************************************)
(* The executions and the recorder: two active jobs are armed on main's    *)
(* cron instance (as after their registration and a restart); the clock    *)
(* ticks and every goroutine runs job() statement by statement.            *)
(***************************************************************************)
ArmedTable ==
    InsertJob(InsertJob(<<>>, Form("a", EveryMinute, "echo ok", "d")),
              Form("b", AtTwoThirtyOne, "exit 1", "d"))

InitExec ==
    /\ jobs = ArmedTable
    /\ cronFile = <<>>
    /\ clocks = <<[entries |-> scheduleJobsFromTable(ArmedTable)]>>
    /\ execs = {}
    /\ tasks = <<>>
    /\ log = <<StartLine(FormatTime(Instant(0)))>>
    /\ taskLogs = <<>>
    /\ mu = 0
    /\ req = [h \in Handlers |-> Idle]
    /\ resp = NoResponse
    /\ now = 0
    /\ nextG = 0
    /\ boots = 0
    /\ offAtTick = {}

NextExec ==
    \/ Tick
    \/ \E e \in execs, o \in AnyOutcome : \E u \in UidChoices(e) : JobRun(e, o, u)
    \/ \E e \in execs : DbLock(e)
    \/ \E e \in execs, dbErr \in BOOLEAN : DbInsert(e, dbErr)
    \/ \E e \in execs : LogLock(e)
    \/ \E e \in execs, ioErr \in BOOLEAN : LogWrite(e, ioErr)

SpecExec == InitExec /\ [][NextExec]_vars

(***************************************************************************)
(* The same executions with the scheduling the Go runtime gives: time      *)
(* passes, so the run loop's timer fires; a goroutine that can take a step *)
(* of the recorder takes it (sync.Mutex hands mu to a waiter); the command *)
(* of every goroutine but the first ends.  The first goroutine's command   *)
(* may run forever.                                                        *)
(***************************************************************************)
Goroutines == 1..MaxExec

\* the command of goroutine g ends
CommandEnds(g) ==
    \E e \in execs, o \in AnyOutcome : \E u \in UidChoices(e) : e.g = g /\ JobRun(e, o, u)

\* a step of goroutine g in the recorder
RecorderStep(g) ==
    \E e \in execs :
      /\ e.g = g
      /\ \/ DbLock(e)
         \/ \E dbErr \in BOOLEAN : DbInsert(e, dbErr)
         \/ LogLock(e)
         \/ \E ioErr \in BOOLEAN : LogWrite(e, ioErr)

Fairness ==
    /\ WF_vars(Tick)
    /\ \A g \in Goroutines \ {1} : WF_vars(CommandEnds(g))
    /\ \A g \in Goroutines : WF_vars(RecorderStep(g))

SpecLive == InitExec /\ [][NextExec]_vars /\ Fairness

(***************************************************************************)
(* Two active jobs of one schedule and different commands, armed on main's *)
(* cron instance: the tick of 02:31 matches both.                          *)
(***************************************************************************)
TwinTable ==
    InsertJob(InsertJob(<<>>, Form("a", AtTwoThirtyOne, "echo ok", "d")),
              Form("b", AtTwoThirtyOne, "exit 1", "d"))

InitTwin ==
    /\ jobs = TwinTable
    /\ cronFile = <<>>
    /\ clocks = <<[entries |-> scheduleJobsFromTable(TwinTable)]>>
    /\ execs = {}
    /\ tasks = <<>>
    /\ log = <<StartLine(FormatTime(Instant(0)))>>
    /\ taskLogs = <<>>
    /\ mu = 0
    /\ req = [h \in Handlers |-> Idle]
    /\ resp = NoResponse
    /\ now = 0
    /\ nextG = 0
    /\ boots = 0
    /\ offAtTick = {}

SpecTwin == InitTwin /\ [][NextExec]_vars

(***************************************************************************)
(* The executions beside the registry's disable: the goroutines of job()   *)
(* and the handler goroutines of deleteJobHandler run together; one active *)
(* job is armed on main's cron instance.                                   *)
(***************************************************************************)
OneJobTable == InsertJob(<<>>, Form("a", EveryMinute, "echo ok", "d"))

InitMutex ==
    /\ jobs = OneJobTable
    /\ cronFile = <<>>
    /\ clocks = <<[entries |-> scheduleJobsFromTable(OneJobTable)]>>
    /\ execs = {}
    /\ tasks = <<>>
    /\ log = <<StartLine(FormatTime(Instant(0)))>>
    /\ taskLogs = <<>>
    /\ mu = 0
    /\ req = [h \in Handlers |-> Idle]
    /\ resp = NoResponse
    /\ now = 0
    /\ nextG = 0
    /\ boots = 0
    /\ offAtTick = {}

NextMutex ==
    \/ NextExec
    \/ \E h \in Handlers, m \in Methods, text \in JobIdInputs : DeleteJob(h, m, text)

SpecMutex == InitMutex /\ [][NextMutex]_vars

(***************************************************************************)
(* The file-backed scheduler (lines 647-1234): main schedules the lines of *)
(* cron_jobs.txt; submitJobHandler appends a line to the file and inserts  *)
(* a row, and creates no cron instance; there is no delete handler.        *)
(***************************************************************************)
Words == ("echo ok" :> <<"echo", "ok">>) @@ ("exit 1" :> <<"exit", "1">>)

\* strings.Join(parts, " ")
JoinWords(ws) ==
    CASE ws = <<"echo", "ok">> -> "echo ok"
      [] ws = <<"exit", "1">>  -> "exit 1"
      [] Len(ws) = 1           -> ws[1]
      [] OTHER                 -> "other"

\* fmt.Fprintf(file, "%s %s\n", cronExpr, command), as strings.Fields reads it back
Line(f) == f.cron_expr \o Words[f.command]

RECURSIVE AddLines(_, _)
AddLines(entries, lines) ==
    IF lines = <<>> THEN entries
    ELSE LET parts == Head(lines)
         IN  IF Len(parts) < 6
               THEN AddLines(entries, Tail(lines))
               ELSE AddLines(AddFunc(entries, SubSeq(parts, 1, 5),
                                     JoinWords(SubSeq(parts, 6, Len(parts))), 0),
                             Tail(lines))

\* scheduleJobsFromFile(c, "cron_jobs.txt") on a new cron instance
scheduleJobsFromFile(lines) == AddLines(<<>>, lines)

\* the SchedulerLine it writes to the log for every line of six parts or more
RECURSIVE SchedulerLines(_, _)
SchedulerLines(lines, ts) ==
    IF lines = <<>> THEN <<>>
    ELSE LET parts == Head(lines)
         IN  (IF Len(parts) < 6 THEN <<>>
              ELSE <<[kind |-> IF ParseStandard(SubSeq(parts, 1, 5))
                                 THEN "scheduled" ELSE "scheduling error",
                      timestamp |-> ts, status |-> "", uid |-> 0,
                      command |-> JoinWords(SubSeq(parts, 6, Len(parts))),
                      output |-> ""]>>)
             \o SchedulerLines(Tail(lines), ts)

\* INSERT INTO jobs (...) of the file-backed program: no job_status column;
\* added_at is not kept
InsertJobFile(tbl, f) ==
    Append(tbl, [job_id |-> Len(tbl) + 1,
                 job_name |-> f.job_name,
                 job_schedule |-> f.cron_expr,
                 job_command |-> f.command,
                 job_description |-> f.job_description])

InitFile ==
    /\ jobs = <<>>
    /\ cronFile = <<>>
    /\ clocks = <<[entries |-> scheduleJobsFromFile(<<>>)]>>
    /\ execs = {}
    /\ tasks = <<>>
    /\ log = <<StartLine(FormatTime(Instant(0)))>>
    /\ taskLogs = <<>>
    /\ mu = 0
    /\ req = [h \in Handlers |-> Idle]
    /\ resp = NoResponse
    /\ now = 0
    /\ nextG = 0
    /\ boots = 0
    /\ offAtTick = {}

SubmitCheckFile(h, m, f) == CheckForm(h, m, f, "append")

SubmitAppendFile(h) ==
    /\ req[h].pc = "append"
    /\ Len(cronFile) < MaxJobs
    /\ cronFile' = Append(cronFile, Line(req[h].form))
    /\ req' = [req EXCEPT ![h].pc = "insertf"]
    /\ UNCHANGED <<taskLogs, jobs, clocks, execs, tasks, log, mu, resp, now, nextG, boots,
                   offAtTick>>

SubmitInsertFile(h) ==
    /\ req[h].pc = "insertf"
    /\ IF UniqueViolated(jobs, req[h].form.job_name)
         THEN /\ Reply(h, 400, "Error inserting job")
              /\ UNCHANGED jobs
         ELSE /\ Len(jobs) < MaxJobs
              /\ jobs' = InsertJobFile(jobs, req[h].form)
              /\ Reply(h, 303, "")
    /\ UNCHANGED <<taskLogs, cronFile, clocks, execs, tasks, log, mu, now, nextG, boots,
                   offAtTick>>

\* the process ends and main runs again: lines 1220-1223
RestartFile ==
    /\ boots < MaxBoots
    /\ boots' = boots + 1
    /\ clocks' = <<[entries |-> scheduleJobsFromFile(cronFile)]>>
    /\ execs' = {}
    /\ mu' = 0
    /\ req' = [h \in Handlers |-> Idle]
    /\ resp' = NoResponse
    /\ log' = Append(log \o SchedulerLines(cronFile, FormatTime(Instant(now))),
                      StartLine(FormatTime(Instant(now))))
    /\ UNCHANGED <<taskLogs, jobs, cronFile, tasks, now, nextG, offAtTick>>

NextFile ==
    \/ \E h \in Handlers, m \in Methods, f \in Forms : SubmitCheckFile(h, m, f)
    \/ \E h \in Handlers : SubmitAppendFile(h)
    \/ \E h \in Handlers : SubmitInsertFile(h)
    \/ Tick
    \/ RestartFile

SpecFile == InitFile /\ [][NextFile]_vars

(***************************************************************************)
(* The readers of the execution history (table-backed and file-backed      *)
(* programs alike): downloadLogHandler and distinctCommandsHandler.  They  *)
(* read the tasks table only, so the two sink writes of job() are taken as *)
(* one step here: an execution dispatched from an armed entry completes    *)
(* and is recorded.  Between two such steps days may pass.                 *)
(***************************************************************************)
\* the task_uid query values: none (the empty text), and uids stored or not
NoUid == 0
UidInputs == {NoUid} \cup (1..(MaxRecords + 1))

\* the entries some tick so far has dispatched
DispatchedEntries ==
    {en \in Range(AllEntries) : \E k \in 1..now : Matches(en.schedule, Instant(k))}

\* job(cmd) of a dispatched entry, from the command's end to its return
Recorded(en, o, dbErr) ==
    LET e0 == NewExec(nextG + 1, en)
        js == BuildStatus(e0, o, Instant(now), NewUid(e0))
        failed == dbErr \/ TaskUidViolated(tasks, js.uid)
    IN  [tasks |-> IF failed THEN tasks ELSE InsertTask(tasks, js, o),
         log |-> log \o LogLines(js),
         exec |-> [e0 EXCEPT !.pc = "done", !.js = js, !.ran = o,
                             !.stdout = <<IF failed THEN InsertError ELSE Inserted,
                                          LogLinePrinted>>]]

RunJob(en, o, dbErr) ==
    /\ nextG < MaxRecords
    /\ en \in DispatchedEntries
    /\ o \in Outcomes(en.command)
    /\ LET r == Recorded(en, o, dbErr)
       IN  /\ tasks' = r.tasks
           /\ log' = r.log
           /\ execs' = execs \cup {r.exec}
    /\ nextG' = nextG + 1
    /\ UNCHANGED <<taskLogs, jobs, cronFile, clocks, mu, req, resp, now, boots, offAtTick>>

DayPasses ==
    /\ now < MaxDays * MinutesPerDay
    /\ now' = now + MinutesPerDay
    /\ UNCHANGED <<taskLogs, jobs, cronFile, clocks, execs, tasks, log, mu, req, resp,
                   nextG, boots, offAtTick>>

\* fmt.Sprintf("Task ID: %s\nCommand: %s\nTimestamp: %s\nStatus: %s\n\nOutput:\n%s\n", ...)
LogContent(row) ==
    <<[kind |-> "detail", timestamp |-> row.timestamp, status |-> row.status,
       uid |-> row.task_uid, command |-> row.command, output |-> row.output]>>

\* SELECT ... FROM tasks WHERE task_uid = ?
RowsWithUid(tbl, uid) == {k \in DOMAIN tbl : tbl[k].task_uid = uid}

\* downloadLogHandler: the response
downloadLog(tbl, uid) ==
    IF uid = NoUid THEN [code |-> 400, err |-> "Task ID not specified", body |-> <<>>]
    ELSE IF RowsWithUid(tbl, uid) = {}
      THEN [code |-> 404, err |-> "No log entries found for the specified task ID",
            body |-> <<>>]
    ELSE [code |-> 200, err |-> "",
          body |-> LogContent(tbl[CHOOSE k \in RowsWithUid(tbl, uid) : TRUE])]

DownloadLog(uid) ==
    /\ resp' = downloadLog(tasks, uid)
    /\ UNCHANGED <<taskLogs, jobs, cronFile, clocks, execs, tasks, log, mu, req, now,
                   nextG, boots, offAtTick>>

\* the timestamp texts are compared as text: all are of one width, their
\* fields zero-padded, so the first differing field decides, day first
TextLess(a, b) ==
    \E i \in 1..Len(a) : a[i] < b[i] /\ \A j \in 1..(i - 1) : a[j] = b[j]

\* the distinct commands of the table (GROUP BY command)
CommandsIn(tbl) == {tbl[k].command : k \in DOMAIN tbl}

RowsOfCommand(tbl, c) == {k \in DOMAIN tbl : tbl[k].command = c}

\* MAX(timestamp) of a group
MaxTimestamp(tbl, c) ==
    CHOOSE t \in {tbl[k].timestamp : k \in RowsOfCommand(tbl, c)} :
      \A k \in RowsOfCommand(tbl, c) : ~TextLess(t, tbl[k].timestamp)

\* a count of all the rows of the group, whatever their status
RECURSIVE SumAll(_, _, _)
SumAll(tbl, c, status) ==
    IF tbl = <<>> THEN 0
    ELSE SumAll(Tail(tbl), c, status) + (IF Head(tbl).command = c THEN 1 ELSE 0)

\* SUM(CASE WHEN status = ? THEN 1 ELSE 0 END) of a group
RECURSIVE SumCase(_, _, _)
SumCase(tbl, c, status) ==
    IF tbl = <<>> THEN 0
    ELSE SumCase(Tail(tbl), c, status)
           + (IF Head(tbl).command = c /\ Head(tbl).status = status THEN 1 ELSE 0)

\* the row of a group: the bare columns task_uid and output beside MAX() are
\* those of a row that holds the maximum
GroupEntry(tbl, c, k) ==
    [Command |-> c, TaskUID |-> tbl[k].task_uid, LastRun |-> MaxTimestamp(tbl, c),
     SuccessCount |-> SumCase(tbl, c, "Success"),
     FailureCount |-> SumCase(tbl, c, "Failure"),
     Output |-> tbl[k].output]

GroupEntries(tbl, c) ==
    {GroupEntry(tbl, c, k) :
       k \in {r \in RowsOfCommand(tbl, c) : tbl[r].timestamp = MaxTimestamp(tbl, c)}}

\* the results the query may give: one row per group, ORDER BY last_run DESC
QueryResults(tbl) ==
    LET all == UNION {GroupEntries(tbl, c) : c \in CommandsIn(tbl)}
        n == Cardinality(CommandsIn(tbl))
    IN  {s \in [1..n -> all] :
           /\ \A i, j \in 1..n : s[i].Command = s[j].Command => i = j
           /\ \A i, j \in 1..n : i < j => ~TextLess(s[i].LastRun, s[j].LastRun)}

\* distinctCommandsHandler, with mu held from its first to its last statement
DistinctCommands ==
    /\ mu = 0
    /\ \E page \in QueryResults(tasks) : resp' = [code |-> 200, err |-> "", body |-> page]
    /\ UNCHANGED <<taskLogs, jobs, cronFile, clocks, execs, tasks, log, mu, req, now,
                   nextG, boots, offAtTick>>

(***************************************************************************)
(* distinctCommandsHandler statement by statement, beside the executions:  *)
(* mu.Lock(), then the query and the page (or the query's error) with mu   *)
(* held, released by the deferred Unlock on either return.  One active job *)
(* is armed.  The scheduling: a goroutine waiting in mu.Lock() gets mu     *)
(* (sync.Mutex hands it to a waiter that has waited long), and a goroutine *)
(* that holds mu goes on to its return.  Nothing makes a command end or a  *)
(* status request arrive.                                                  *)
(***************************************************************************)
\* the value of mu while handler h holds it
HandlerLock(h) == MaxExec + h

StatusLock(h) ==
    /\ req[h].pc = "idle"
    /\ mu = 0
    /\ mu' = HandlerLock(h)
    /\ req' = [req EXCEPT ![h].pc = "query"]
    /\ UNCHANGED <<taskLogs, jobs, cronFile, clocks, execs, tasks, log, resp, now, nextG,
                   boots, offAtTick>>

\* a handler without the deferred Unlock: the error return keeps mu locked
StatusQueryNoDefer(h, dbErr) ==
    /\ req[h].pc = "query"
    /\ mu = HandlerLock(h)
    /\ IF dbErr
         THEN /\ resp' = [code |-> 500, err |-> "Error querying database"]
              /\ UNCHANGED mu
         ELSE /\ \E page \in QueryResults(tasks) :
                   resp' = [code |-> 200, err |-> "", body |-> page]
              /\ mu' = 0
    /\ req' = [req EXCEPT ![h] = Idle]
    /\ UNCHANGED <<taskLogs, jobs, cronFile, clocks, execs, tasks, log, now, nextG, boots,
                   offAtTick>>

StatusQuery(h, dbErr) ==
    /\ req[h].pc = "query"
    /\ mu = HandlerLock(h)
    /\ IF dbErr
         THEN resp' = [code |-> 500, err |-> "Error querying database"]
         ELSE \E page \in QueryResults(tasks) :
                resp' = [code |-> 200, err |-> "", body |-> page]
    /\ mu' = 0
    /\ req' = [req EXCEPT ![h] = Idle]
    /\ UNCHANGED <<taskLogs, jobs, cronFile, clocks, execs, tasks, log, now, nextG, boots,
                   offAtTick>>

NextStatus ==
    \/ NextExec
    \/ \E h \in Handlers : StatusLock(h)
    \/ \E h \in Handlers, dbErr \in BOOLEAN : StatusQuery(h, dbErr)

\* goroutine g takes mu; goroutine g, holding mu, writes and returns
TakesLock(g) == \E e \in execs : e.g = g /\ (DbLock(e) \/ LogLock(e))

WritesSink(g) ==
    \E e \in execs :
      /\ e.g = g
      /\ \/ \E dbErr \in BOOLEAN : DbInsert(e, dbErr)
         \/ \E ioErr \in BOOLEAN : LogWrite(e, ioErr)

FairStatus ==
    /\ \A g \in Goroutines : SF_vars(TakesLock(g)) /\ WF_vars(WritesSink(g))
    /\ \A h \in Handlers : WF_vars(\E dbErr \in BOOLEAN : StatusQuery(h, dbErr))

SpecStatus == InitMutex /\ [][NextStatus]_vars /\ FairStatus

NextRead ==
    \/ \E en \in Range(AllEntries), o \in AnyOutcome, dbErr \in BOOLEAN : RunJob(en, o, dbErr)
    \/ DayPasses
    \/ \E uid \in UidInputs : DownloadLog(uid)
    \/ DistinctCommands

SpecRead == InitExec /\ [][NextRead]_vars

(***************************************************************************)
(* The whole table-backed program around the tasks table: the executions   *)
(* statement by statement, the two readers, the disable, and the register  *)
(* calls of one client, who submits a name already taken and a second job. *)
(***************************************************************************)
StoreForms == {Form("a", EveryMinute, "echo ok", "d"), Form("b", MinuteSixty, "exit 1", "d")}

NextStore ==
    \/ NextMutex
    \/ \E f \in StoreForms : SubmitCheck(1, "POST", f)
    \/ SubmitInsert(1)
    \/ SubmitArm(1)
    \/ \E uid \in UidInputs : DownloadLog(uid)
    \/ DistinctCommands

SpecStore == InitMutex /\ [][NextStore]_vars

(***************************************************************************)
(* The start of the process over a job source that is already there: main  *)
(* of the table-backed program finds a jobs table, main of the file-backed *)
(* programs a cron_jobs.txt, of up to MaxLoad entries each, well-formed or *)
(* not.  The state before main's cron.New() has no cron instance.          *)
(***************************************************************************)
LoadSchedules == ValidCrons \cup MalformedCrons

LoadNames == <<"a", "b", "c", "d">>

LoadRow(i, x, st) ==
    [job_id |-> i, job_name |-> LoadNames[i], job_schedule |-> x,
     job_command |-> IF i = 2 THEN "exit 1" ELSE "echo ok",
     job_description |-> "d", job_status |-> st]

LoadTables ==
    UNION {{[i \in 1..n |-> LoadRow(i, xs[i], ss[i])] :
              xs \in [1..n -> LoadSchedules], ss \in [1..n -> {0, 1}]} : n \in 0..MaxLoad}

\* lines of cron_jobs.txt, as strings.Fields splits them: job lines, a
\* comment and a blank line
LoadLines ==
    {Line(Form("a", x, "echo ok", "d")) : x \in LoadSchedules}
      \cup {Line(Form("b", EveryMinute, "exit 1", "d")), <<"#", "jobs">>, <<>>}

LoadFiles == UNION {[1..n -> LoadLines] : n \in 0..MaxLoad}

\* what scheduleJobsFromTable prints, row by row
RECURSIVE TableMessages(_)
TableMessages(rows) ==
    IF rows = <<>> THEN <<>>
    ELSE <<IF ParseStandard(Head(rows).job_schedule)
             THEN "Scheduled job" ELSE "Error scheduling job">>
         \o TableMessages(Tail(rows))

\* what scheduleJobsFromFile prints, line by line
RECURSIVE FileMessages(_)
FileMessages(lines) ==
    IF lines = <<>> THEN <<>>
    ELSE <<IF Len(Head(lines)) < 6 THEN "Skipping invalid line"
           ELSE IF ParseStandard(SubSeq(Head(lines), 1, 5))
             THEN "Scheduled job" ELSE "Error scheduling job">>
         \o FileMessages(Tail(lines))

InitLoad ==
    /\ \/ jobs \in LoadTables /\ cronFile = <<>>
       \/ jobs = <<>> /\ cronFile \in LoadFiles
    /\ clocks = <<>>
    /\ execs = {}
    /\ tasks = <<>>
    /\ log = <<>>
    /\ taskLogs = <<>>
    /\ mu = 0
    /\ req = [h \in Handlers |-> Idle]
    /\ resp = NoResponse
    /\ now = 0
    /\ nextG = 0
    /\ boots = 0
    /\ offAtTick = {}

\* main of the table-backed program: lines 628-631
MainTable ==
    /\ clocks = <<>>
    /\ cronFile = <<>>
    /\ clocks' = <<[entries |-> scheduleJobsFromTable(jobs)]>>
    /\ log' = Append(log, StartLine(FormatTime(Instant(now))))
    /\ UNCHANGED <<taskLogs, jobs, cronFile, execs, tasks, mu, req, resp, now, nextG,
                   boots, offAtTick>>

\* main of the file-backed programs: lines 1220-1223; part_000 lines 366-369
MainFile ==
    /\ clocks = <<>>
    /\ jobs = <<>>
    /\ clocks' = <<[entries |-> scheduleJobsFromFile(cronFile)]>>
    /\ log' = Append(log \o SchedulerLines(cronFile, FormatTime(Instant(now))),
                      StartLine(FormatTime(Instant(now))))
    /\ UNCHANGED <<taskLogs, jobs, cronFile, execs, tasks, mu, req, resp, now, nextG,
                   boots, offAtTick>>

NextLoad == MainTable \/ MainFile

SpecLoad == InitLoad /\ [][NextLoad]_vars

(***************************************************************************)
(* One job of any schedule, at any time: the process runs with one active  *)
(* row armed, whose expression has five fields, each "*" or a number of    *)
(* the field's range; the minute that passes next is one of a choice of    *)
(* days, hours and minutes of the calendar.                                *)
(***************************************************************************)
FieldChoices ==
    <<{"*", "0", "30", "59"}, {"*", "0", "2"}, {"*", "1", "31"}, {"*", "1", "2"},
      {"*", "0", "1"}>>

CronChoices ==
    {<<a, b, c, d, e>> : a \in FieldChoices[1], b \in FieldChoices[2], c \in FieldChoices[3],
                         d \in FieldChoices[4], e \in FieldChoices[5]}

\* days after 30-12-2023: Saturday 30-12, Sunday 31-12, Monday 01-01,
\* Wednesday 31-01, Thursday 01-02
DayChoices == {0, 1, 2, 32, 33}
HourChoices == {0, 2, 5}
MinuteChoices == {0, 7, 30, 59}

\* the ticks before the minutes chosen, counted from the first start at 02:29
Moments ==
    {k \in {d * MinutesPerDay + h * 60 + m - 150 :
              d \in DayChoices, h \in HourChoices, m \in MinuteChoices} : k >= 0}

CronTable(expr) == InsertJob(<<>>, Form("a", expr, "echo ok", "d"))

InitCron ==
    /\ \E expr \in CronChoices :
         /\ jobs = CronTable(expr)
         /\ clocks = <<[entries |-> scheduleJobsFromTable(CronTable(expr))]>>
    /\ now \in Moments
    /\ cronFile = <<>>
    /\ execs = {}
    /\ tasks = <<>>
    /\ log = <<StartLine(FormatTime(Instant(0)))>>
    /\ taskLogs = <<>>
    /\ mu = 0
    /\ req = [h \in Handlers |-> Idle]
    /\ resp = NoResponse
    /\ nextG = 0
    /\ boots = 0
    /\ offAtTick = {}

\* the minute after a chosen moment passes
TickAtMoment ==
    /\ now \in Moments
    /\ Fire

SpecCron == InitCron /\ [][TickAtMoment]_vars

(***************************************************************************)
(* The per-task log file program (src/unnamed/part_000): logJobStatus also *)
(* writes the log line to ./logs/<uid>.log and downloadLogHandler answers  *)
(* with that file.                                                         *)
(***************************************************************************)
\* ioutil.WriteFile(taskLogFilePath, []byte(logLine), 0644)
WriteFile(files, uid, content) ==
    [u \in DOMAIN files \cup {uid} |-> IF u = uid THEN content ELSE files[u]]

RunJobLogs(en, o, dbErr) ==
    /\ nextG < MaxRecords
    /\ en \in DispatchedEntries
    /\ o \in Outcomes(en.command)
    /\ LET r == Recorded(en, o, dbErr)
       IN  /\ tasks' = r.tasks
           /\ log' = r.log
           /\ taskLogs' = WriteFile(taskLogs, r.exec.js.uid, LogLines(r.exec.js))
           /\ execs' = execs \cup {r.exec}
    /\ nextG' = nextG + 1
    /\ UNCHANGED <<jobs, cronFile, clocks, mu, req, resp, now, boots, offAtTick>>

\* downloadLogHandler of the per-task log file program: the response
downloadLogFile(files, uid) ==
    IF uid = NoUid THEN [code |-> 400, err |-> "Task ID not specified", body |-> <<>>]
    ELSE IF uid \notin DOMAIN files
      THEN [code |-> 500, err |-> "Error reading log file", body |-> <<>>]
    ELSE [code |-> 200, err |-> "", body |-> files[uid]]

DownloadLogFile(uid) ==
    /\ resp' = downloadLogFile(taskLogs, uid)
    /\ UNCHANGED <<taskLogs, jobs, cronFile, clocks, execs, tasks, log, mu, req, now,
                   nextG, boots, offAtTick>>

\* cron_jobs.txt of the program: two lines
ArmedFile ==
    <<Line(Form("a", EveryMinute, "echo ok", "d")), Line(Form("b", AtTwoThirtyOne, "exit 1", "d"))>>

InitLogs ==
    /\ jobs = <<>>
    /\ cronFile = ArmedFile
    /\ clocks = <<[entries |-> scheduleJobsFromFile(ArmedFile)]>>
    /\ execs = {}
    /\ tasks = <<>>
    /\ log = SchedulerLines(ArmedFile, FormatTime(Instant(0)))
                \o <<StartLine(FormatTime(Instant(0)))>>
    /\ taskLogs = <<>>
    /\ mu = 0
    /\ req = [h \in Handlers |-> Idle]
    /\ resp = NoResponse
    /\ now = 0
    /\ nextG = 0
    /\ boots = 0
    /\ offAtTick = {}

NextLogs ==
    \/ \E en \in Range(AllEntries), o \in AnyOutcome, dbErr \in BOOLEAN : RunJobLogs(en, o, dbErr)
    \/ DayPasses
    \/ \E uid \in UidInputs : DownloadLogFile(uid)

SpecLogs == InitLogs /\ [][NextLogs]_vars

(***************************************************************************)
(* Properties.                                                             *)
(***************************************************************************)
ActiveIds(tbl) == {i \in DOMAIN tbl : tbl[i].job_status = 1}

\* a step of the clock: a minute boundary passes
IsTick == now' = now + 1

Dispatched == execs' \ execs

\* C1: once disable(id) has returned, the job is dispatched on no tick later
\* than the first tick after the disable; executions in flight are left alone.
\* (offAtTick holds the ids that were already disabled when the previous tick
\* fired, so a tick that dispatches one of them is at least the second tick
\* after the disable.)
C1_NoDispatchAfterDisable ==
    [][/\ IsTick => \A e \in Dispatched : e.job \notin offAtTick
       /\ (\E h \in Handlers, i \in DOMAIN IdText : DeleteJob(h, "POST", IdText[i]))
             => execs' = execs]_vars

\* C2: the snapshot taken right after a disable of id is the snapshot before
\* it without id, every other active job still in it, in the same order; and
\* a disabled job never comes back into a later snapshot.
C2_DisableRemovesFromSnapshot ==
    [][/\ \A h \in Handlers, i \in DOMAIN IdText :
            DeleteJob(h, "POST", IdText[i])
              => getJobs(jobs') = SelectSeq(getJobs(jobs), LAMBDA j : j.JobID # i)
       /\ \A i \in DOMAIN jobs :
            jobs[i].job_status = 0
              => i \notin {getJobs(jobs')[k].JobID : k \in DOMAIN getJobs(jobs')}]_vars

\* a job has been disabled while another job is still active
C2_Witness ==
    \E i, j \in DOMAIN jobs : jobs[i].job_status = 0 /\ jobs[j].job_status = 1

\* the active definitions whose schedule parses
ParsableActive(tbl) == {i \in ActiveIds(tbl) : ParseStandard(tbl[i].job_schedule)}

\* C3: the armed jobs are always among the active definitions, and right
\* after the startup reconciliation they are exactly the active definitions
\* whose schedule parses.
C3_ArmedAreActive ==
    [][/\ ArmedJobs' \subseteq ActiveIds(jobs')
       /\ boots' # boots => ArmedJobs' = ParsableActive(jobs')]_vars

NamesStored(tbl) == {tbl[i].job_name : i \in DOMAIN tbl}

Rejected(h) ==
    /\ resp'.code = 400
    /\ req'[h].pc = "idle"
    /\ jobs' = jobs
    /\ clocks' = clocks

\* C4: a register whose name some definition (active or disabled) carries is
\* answered with an error, at the name check or, when the name was taken
\* after the check, at the insert; the jobs table and the cron instances are
\* left as they were.
C4_DuplicateNameFails ==
    [][\A h \in Handlers :
         /\ \A f \in CompleteForms :
              (f.job_name \in NamesStored(jobs) /\ SubmitCheck(h, "POST", f))
                => Rejected(h)
         /\ (req[h].pc = "insert" /\ req[h].form.job_name \in NamesStored(jobs)
               /\ SubmitInsert(h))
                => Rejected(h)]_vars

\* a register of a stored name has been answered
C4_Witness == resp.err = "Job name already exists" /\ jobs # <<>>

EntriesOfName(n) ==
    {k \in DOMAIN AllEntries : jobs[AllEntries[k].job].job_name = n}

ArmingCalls(n) == {h \in Handlers : req[h].pc = "arm" /\ req[h].form.job_name = n}

\* C5: whatever the interleaving of the register calls, no two stored
\* definitions carry one name, and for one name at most one call gets to arm
\* a job (one call at the arming step, or one armed entry).
C5_OneDefinitionPerName ==
    /\ \A i, j \in DOMAIN jobs : jobs[i].job_name = jobs[j].job_name => i = j
    /\ \A n \in Names : Cardinality(EntriesOfName(n)) + Cardinality(ArmingCalls(n)) <= 1

\* two calls passed the name check with one name and the second insert was rejected
C5_Witness == resp.err = "Error inserting job" /\ jobs # <<>>

\* well-formed as the scheduler's contract has it: five fields, each "*" or a
\* number within minute 0-59, hour 0-23, day-of-month 1-31, month 1-12,
\* day-of-week 0-6
InRange(tok, lo, hi) ==
    tok = "*" \/ (tok \in DOMAIN NumeralValue /\ lo <= NumeralValue[tok] /\ NumeralValue[tok] <= hi)

WellFormed(expr) ==
    /\ Len(expr) = 5
    /\ InRange(expr[1], 0, 59) /\ InRange(expr[2], 0, 23) /\ InRange(expr[3], 1, 31)
    /\ InRange(expr[4], 1, 12) /\ InRange(expr[5], 0, 6)

C7_MalformedRejected ==
    [][/\ \A h \in Handlers :
            (req[h].pc # "idle" /\ req'[h].pc = "idle" /\ boots' = boots
               /\ ~WellFormed(req[h].form.cron_expr))
              => resp'.code = 400
       /\ \A i \in DOMAIN jobs' : WellFormed(jobs'[i].job_schedule)]_vars

EmptyField(f) ==
    f.job_name = "" \/ f.cron_expr = <<>> \/ f.command = "" \/ f.job_description = ""

\* C8: a register with any of the four fields empty is answered with the
\* "missing" error and leaves the jobs table and the cron instances as they
\* were.
C8_MissingFieldFails ==
    [][\A h \in Handlers, f \in Forms :
         (EmptyField(f) /\ SubmitCheck(h, "POST", f))
           => Rejected(h) /\ resp'.err = "Missing field"]_vars

\* a register with an empty field has been answered
C8_Witness == resp = [code |-> 400, err |-> "Missing field"]

\* the register call of row i is over
Registered(i) ==
    \A h \in Handlers : req[h].pc = "idle" \/ req[h].form.job_name # jobs[i].job_name

\* C9: once a register with a fresh name and a valid schedule has succeeded,
\* the definition is stored as active and every tick its schedule matches
\* dispatches its command, with no restart in between needed.
C9_RegisteredIsDispatched ==
    [][IsTick =>
         \A i \in DOMAIN jobs :
           (Registered(i) /\ ~IsDisabled(jobs[i]) /\ WellFormed(jobs[i].job_schedule)
              /\ Matches(jobs[i].job_schedule, Instant(now')))
             => \E e \in Dispatched : e.command = jobs[i].job_command]_vars

\* what the subprocess of a record did decides its status
StatusAgrees(status, ran) ==
    /\ status \in {"Success", "Failure"}
    /\ status = "Success" <=> (ran.spawned /\ ran.exit = 0)

\* C10: the record job() builds, and the row stored from it, has status
\* Success exactly when the subprocess started and exited with status 0, and
\* Failure otherwise.
C10_StatusIffExitZero ==
    /\ \A e \in execs : e.pc # "run" => StatusAgrees(e.js.status, e.ran)
    /\ \A k \in DOMAIN tasks : StatusAgrees(tasks[k].status, tasks[k].ran)

\* a Success row, a Failure row of a non-zero exit and a Failure row of a
\* command that could not be spawned are stored
C10_Witness ==
    /\ \E k \in DOMAIN tasks : tasks[k].status = "Success" /\ tasks[k].ran.exit = 0
    /\ \E k \in DOMAIN tasks : tasks[k].status = "Failure" /\ tasks[k].ran.exit = 1
    /\ \E k \in DOMAIN tasks : tasks[k].status = "Failure" /\ ~tasks[k].ran.spawned

(***************************************************************************)
(* The recorder.                                                           *)
(***************************************************************************)
Printed(e, msg) == msg \in Range(e.stdout)

\* no sink write has failed
NoSinkFailure == \A e \in execs : ~Printed(e, InsertError) /\ ~Printed(e, LogError)

RowsOf(u) == {k \in DOMAIN tasks : tasks[k].task_uid = u}

\* the record entries of the log: one status line each (a Failure's error
\* block is part of its entry)
EntriesOf(u) == {k \in DOMAIN log : log[k].kind = "status" /\ log[k].uid = u}

\* C11: as long as no sink write has failed, every execution that has
\* returned left exactly one row in the tasks table and exactly one entry in
\* the log, and at no point of any execution are there two of either.
C11_ExactlyOneRecord ==
    NoSinkFailure =>
      \A e \in execs : e.pc # "run" =>
        /\ Cardinality(RowsOf(e.js.uid)) <= 1
        /\ Cardinality(EntriesOf(e.js.uid)) <= 1
        /\ e.pc = "done" => /\ Cardinality(RowsOf(e.js.uid)) = 1
                            /\ Cardinality(EntriesOf(e.js.uid)) = 1
                            /\ \A k \in RowsOf(e.js.uid) :
                                 /\ tasks[k].command = e.js.command
                                 /\ tasks[k].status = e.js.status

\* every dispatched execution has returned, three at least (two of them of
\* one tick), and no sink write failed
C11_Witness ==
    /\ NoSinkFailure
    /\ Cardinality(execs) >= 3
    /\ \A e \in execs : e.pc = "done"

\* C12: no two rows of the tasks table carry the same task_uid.
C12_UidsUnique ==
    \A i, j \in DOMAIN tasks : tasks[i].task_uid = tasks[j].task_uid => i = j

\* two executions drew the same uid and both have returned, one of them with
\* its row stored, and another row is stored as well
C12_Witness ==
    /\ Len(tasks) >= 2
    /\ \E e1, e2 \in execs :
         /\ e1.g # e2.g /\ e1.js.uid = e2.js.uid
         /\ e1.pc = "done" /\ e2.pc = "done"
         /\ Printed(e1, Inserted)

InSinkWrite == {e \in execs : e.pc \in {"dbw", "logw"}}

\* C18: at most one goroutine is inside a sink write (between mu.Lock and
\* the return of logJobStatusToDB or logJobStatus) and it is the holder of
\* mu; in the log, the lines of one record are never separated by another's.
C18_SinkWritesExclusive ==
    /\ Cardinality(InSinkWrite) <= 1
    /\ \A e \in InSinkWrite : mu = e.g
    /\ \A k \in DOMAIN log :
         /\ log[k].kind = "error" =>
              k > 1 /\ log[k - 1].kind = "status" /\ log[k - 1].uid = log[k].uid
         /\ log[k].kind = "output" =>
              k > 1 /\ log[k - 1].kind = "error" /\ log[k - 1].uid = log[k].uid

\* one goroutine is inside a sink write while two others wait for mu
C18_Witness ==
    \E e \in InSinkWrite :
      Cardinality({w \in execs : w.pc \in {"db", "log"}}) >= 2

\* C20: a failed INSERT does not keep the log entry from being written and a
\* failed log append does not remove the row: the entries of the log are
\* those of the returned executions whose append did not fail, the rows
\* those of the executions whose INSERT did not fail; each failure is
\* printed, and the goroutine goes on to its return, holding mu no longer.
C20_SinksIndependent ==
    /\ \A u \in UsedUids :
         /\ Cardinality(EntriesOf(u)) =
              Cardinality({e \in execs : e.pc = "done" /\ e.js.uid = u /\ ~Printed(e, LogError)})
         /\ Cardinality(RowsOf(u)) =
              Cardinality({e \in execs : e.js.uid = u /\ Printed(e, Inserted)})
    /\ \A e \in execs :
         /\ e.pc \in {"log", "logw", "done"} => (Printed(e, Inserted) # Printed(e, InsertError))
         /\ e.pc = "done" => Printed(e, LogLinePrinted)
         /\ mu = e.g => e.pc \in {"dbw", "logw"}

\* one execution has returned with its INSERT failed and its log entry
\* written, another with its row stored and its log append failed
C20_Witness ==
    /\ \E e \in execs : /\ e.pc = "done" /\ Printed(e, InsertError) /\ ~Printed(e, LogError)
                        /\ EntriesOf(e.js.uid) # {} /\ RowsOf(e.js.uid) = {}
    /\ \E e \in execs : /\ e.pc = "done" /\ Printed(e, Inserted) /\ Printed(e, LogError)
                        /\ EntriesOf(e.js.uid) = {} /\ RowsOf(e.js.uid) # {}

(***************************************************************************)
(* The readers of the history.                                             *)
(***************************************************************************)
\* a download of uid is answered
Fetched(uid) == DownloadLog(uid) \/ DownloadLogFile(uid)

\* the executions whose INSERT succeeded
Stored == {e \in execs : Printed(e, Inserted)}

\* C13: a download of the uid of a record whose INSERT succeeded is answered
\* with that record's command, status and output, however many records were
\* stored after it.
C13_FetchReturnsRecord ==
    [][\A uid \in UidInputs : Fetched(uid) =>
         \A e \in Stored : e.js.uid = uid =>
           /\ resp'.code = 200
           /\ \E k \in DOMAIN resp'.body :
                /\ resp'.body[k].command = e.js.command
                /\ resp'.body[k].status = e.js.status
                /\ resp'.body[k].output = e.js.output]_vars

\* C14: a download of a uid that no stored record carries is answered 404,
\* and changes nothing but the response.
C14_UnknownUidNotFound ==
    [][\A uid \in UidInputs \ {NoUid} :
         (Fetched(uid) /\ RowsWithUid(tasks, uid) = {})
           => /\ resp'.code = 404
              /\ UNCHANGED <<taskLogs, jobs, cronFile, clocks, execs, tasks, log, mu, req,
                             now, nextG, boots, offAtTick>>]_vars

\* the timestamp text read as an instant: year, month, day, hour, minute, second
Chrono(ts) == <<ts[3], ts[2], ts[1], ts[4], ts[5], ts[6]>>

\* instant a is earlier than instant b
Earlier(a, b) ==
    \E i \in 1..6 : Chrono(a)[i] < Chrono(b)[i] /\ \A j \in 1..(i - 1) : Chrono(a)[j] = Chrono(b)[j]

\* the completion time of the latest execution of command c in the store
LatestRun(c) ==
    CHOOSE t \in {tasks[k].timestamp : k \in RowsOfCommand(tasks, c)} :
      \A k \in RowsOfCommand(tasks, c) : ~Earlier(t, tasks[k].timestamp)

\* C15: the page of distinctCommandsHandler lists the commands by the time
\* of their latest execution, latest first: no entry's command was last run
\* earlier than the command of an entry below it.
C15_OrderedByLastRun ==
    [][DistinctCommands =>
         \A i, j \in DOMAIN resp'.body :
           i < j => ~Earlier(LatestRun(resp'.body[i].Command),
                             LatestRun(resp'.body[j].Command))]_vars

StoredWith(c, status) == {k \in DOMAIN tasks : tasks[k].command = c /\ tasks[k].status = status}

\* C16: the page has exactly one entry per distinct command of the tasks
\* table, and the entry's counts are the numbers of the command's rows with
\* status Success and with status Failure.
C16_OneEntryPerCommand ==
    [][DistinctCommands =>
         /\ {resp'.body[i].Command : i \in DOMAIN resp'.body} = {tasks[k].command : k \in DOMAIN tasks}
         /\ \A i, j \in DOMAIN resp'.body :
              resp'.body[i].Command = resp'.body[j].Command => i = j
         /\ \A i \in DOMAIN resp'.body :
              /\ resp'.body[i].SuccessCount = Cardinality(StoredWith(resp'.body[i].Command, "Success"))
              /\ resp'.body[i].FailureCount = Cardinality(StoredWith(resp'.body[i].Command, "Failure"))
              /\ resp'.body[i].SuccessCount + resp'.body[i].FailureCount =
                   Cardinality(RowsOfCommand(tasks, resp'.body[i].Command))]_vars

\* a page of two entries has been served, one of them of a command with a
\* Success and a Failure row
C16_Witness ==
    /\ resp.code = 200
    /\ "body" \in DOMAIN resp
    /\ Len(resp.body) = 2
    /\ \E i \in DOMAIN resp.body :
         /\ "SuccessCount" \in DOMAIN resp.body[i]
         /\ resp.body[i].SuccessCount >= 1 /\ resp.body[i].FailureCount >= 1

\* C17: the uid, the last run time and the output of an entry are those of
\* one row of the entry's command, and no row of that command was written by
\* a later execution.
C17_EntryIsLatestRecord ==
    [][DistinctCommands =>
         \A i \in DOMAIN resp'.body :
           \E k \in RowsOfCommand(tasks, resp'.body[i].Command) :
             /\ tasks[k].task_uid = resp'.body[i].TaskUID
             /\ tasks[k].timestamp = resp'.body[i].LastRun
             /\ tasks[k].output = resp'.body[i].Output
             /\ \A n \in RowsOfCommand(tasks, resp'.body[i].Command) :
                  ~Earlier(tasks[k].timestamp, tasks[n].timestamp)]_vars

\* C19: the jobs table is written (the INSERT of a register, the UPDATE of
\* a disable) only by a holder of mu, so never while a goroutine of job() is
\* inside a sink write.
C19_RegistryWritesUnderMutex ==
    [][jobs' # jobs => InSinkWrite = {}]_vars

(***************************************************************************)
(* Dispatch and the running commands.                                      *)
(***************************************************************************)
\* the commands the entries of the cron instances run at tick k
DueCommands(k) == {en.command : en \in {x \in Range(AllEntries) : Matches(x.schedule, Instant(k))}}

\* C21: a running command blocks nothing but its own goroutine: it holds no
\* mutex; every tick starts every entry due, whatever is running; and even
\* if the first execution's command never ends, the clock reaches its last
\* tick and every other execution returns from job().
C21_DispatchNonBlocking ==
    /\ [](\A e \in execs : e.pc = "run" => mu # e.g)
    /\ [][IsTick => {e.command : e \in Dispatched} = DueCommands(now')]_vars
    /\ <>[](/\ now = MaxTicks
            /\ \E e \in execs : e.g # 1
            /\ \A e \in execs : e.g # 1 => e.pc = "done")

\* the first execution's command is still running after the last tick, and
\* the two executions dispatched after it have returned
C21_Witness ==
    /\ now = MaxTicks
    /\ \E e \in execs : e.g = 1 /\ e.pc = "run"
    /\ Cardinality({e \in execs : e.g # 1 /\ e.pc = "done"}) >= 2

\* the entries of job j due at tick k
DueEntriesOf(j, k) ==
    {i \in DOMAIN AllEntries :
       AllEntries[i].job = j /\ Matches(AllEntries[i].schedule, Instant(k))}

Running(j) == {e \in execs : e.job = j /\ e.pc = "run"}

\* C22: a tick starts one execution for every entry of a job that is due,
\* however many executions of that job are still running: the executions of
\* one job running together are as many as the ticks that matched it.
C22_NoDeduplication ==
    [][IsTick =>
         \A j \in ArmedJobs :
           /\ Cardinality({e \in Dispatched : e.job = j}) = Cardinality(DueEntriesOf(j, now'))
           /\ Running(j) \subseteq {e \in execs' : e.job = j /\ e.pc = "run"}
           /\ Cardinality({e \in execs' : e.job = j /\ e.pc = "run"}) =
                Cardinality(Running(j)) + Cardinality(DueEntriesOf(j, now'))]_vars

\* after the last tick, one job has as many executions running as there
\* were ticks: none of its commands has ended
C22_Witness ==
    /\ now = MaxTicks
    /\ \E j \in ArmedJobs : Cardinality(Running(j)) = MaxTicks

\* the lines of js stand in the log one after the other, from position k on
LinesAt(js, k) ==
    /\ k + Len(LogLines(js)) - 1 <= Len(log)
    /\ SubSeq(log, k, k + Len(LogLines(js)) - 1) = LogLines(js)

\* C23: a tick that matches two entries of one schedule and different
\* commands starts both; when both executions have returned with no sink
\* write failed, the tasks table holds two rows, one per command, of
\* different uids, and the log holds the lines of each record one after the
\* other, no line of the other record among them.
C23_SameScheduleBothRecorded ==
    /\ [][IsTick => {e.command : e \in Dispatched} = DueCommands(now')
                    /\ Cardinality(Dispatched) = Len(Due(Instant(now')))]_vars
    /\ []((NoSinkFailure /\ now = MaxTicks /\ \A e \in execs : e.pc = "done") =>
            /\ Len(tasks) = 2
            /\ {tasks[k].command : k \in DOMAIN tasks} = {"echo ok", "exit 1"}
            /\ tasks[1].task_uid # tasks[2].task_uid
            /\ \A e \in execs :
                 /\ Cardinality(RowsOf(e.js.uid)) = 1
                 /\ \E k \in DOMAIN log : LinesAt(e.js, k))
    /\ [](\A i, j, k \in DOMAIN log :
            (i < k /\ k < j /\ log[i].uid = log[j].uid /\ log[i].kind # "start")
              => log[k].uid = log[i].uid)

\* both executions of the tick of 02:31 have returned, no sink write failed,
\* and one of the two records is a Failure of three log lines
C23_Witness ==
    /\ NoSinkFailure
    /\ Cardinality(execs) = 2
    /\ \A e \in execs : e.pc = "done"
    /\ \E e1, e2 \in execs : e1.command # e2.command /\ e1.js.status = "Failure"
    /\ Len(log) >= 5

(***************************************************************************)
(* The execution store.                                                    *)
(***************************************************************************)
\* the fields of a stored record
RecordOf(row) ==
    [uid |-> row.task_uid, command |-> row.command, timestamp |-> row.timestamp,
     status |-> row.status, output |-> row.output]

\* C24: no step removes a row of the tasks table or changes the uid, command,
\* timestamp, status or output of one: rows are only added, after those
\* there, by the INSERT of the execution whose record it is; every step of a
\* handler (register, disable, summary, download) and of the clock leaves
\* the table as it is.
C24_RecordsAppendOnly ==
    [][/\ Len(tasks') >= Len(tasks)
       /\ \A k \in DOMAIN tasks : RecordOf(tasks'[k]) = RecordOf(tasks[k])
       /\ (jobs' # jobs \/ req' # req \/ resp' # resp \/ clocks' # clocks \/ now' # now)
            => tasks' = tasks
       /\ Len(tasks') > Len(tasks) =>
            \E e \in execs : e.pc = "dbw" /\ RecordOf(tasks'[Len(tasks')]) = e.js]_vars

\* two records are stored, their job has been disabled since, a second job
\* has been registered and a reader has been answered with a record
C24_Witness ==
    /\ Len(tasks) >= 2
    /\ jobs[1].job_status = 0
    /\ Len(jobs) = 2
    /\ resp.code = 200

(***************************************************************************)
(* The disable.                                                            *)
(***************************************************************************)
\* C25: a disable with a job_id is answered with the redirect whether the id
\* is that of an active row, of a disabled row or of no row; it leaves every
\* row in the table, changes nothing but job_status of the row of that id,
\* which is 0 afterwards; and a second disable of the same id changes
\* nothing more.
C25_DisableIdempotent ==
    [][\A h \in Handlers, text \in JobIdInputs \ {""} :
         DeleteJob(h, "POST", text) =>
           /\ resp' = [code |-> 303, err |-> ""]
           /\ Len(jobs') = Len(jobs)
           /\ \A i \in DOMAIN jobs :
                jobs'[i] = IF i \in RowsWithId(jobs, text)
                             THEN [jobs[i] EXCEPT !.job_status = 0] ELSE jobs[i]
           /\ DisableRows(jobs', text) = jobs'
           /\ clocks' = clocks]_vars

\* of two rows the first is disabled and the second active, and a disable
\* has been answered with the redirect
C25_Witness ==
    /\ Len(jobs) = 2
    /\ jobs[1].job_status = 0
    /\ jobs[2].job_status = 1
    /\ resp.code = 303
    /\ \A h \in Handlers : req[h].pc = "idle"

(***************************************************************************)
(* The batch load at startup.                                              *)
(***************************************************************************)
\* a line of cron_jobs.txt that is a job: five cron fields and a command
WellFormedLine(parts) == Len(parts) >= 6 /\ WellFormed(SubSeq(parts, 1, 5))

\* the entries of the sequence of sources that are well-formed, in order
ExpectedFromTable ==
    LET good == SelectSeq(ActiveRows(jobs), LAMBDA r : WellFormed(r.job_schedule))
    IN  [i \in DOMAIN good |->
           Entry(good[i].job_schedule, good[i].job_command, good[i].job_id)]

ExpectedFromFile ==
    LET good == SelectSeq(cronFile, WellFormedLine)
    IN  [i \in DOMAIN good |->
           Entry(SubSeq(good[i], 1, 5), JoinWords(SubSeq(good[i], 6, Len(good[i]))), 0)]

Warnings == {"Skipping invalid line", "Error scheduling job"}

\* C26: after main has loaded its job source, the cron instance holds the
\* entries of exactly the well-formed rows (lines) of the source, in their
\* order, whatever malformed ones stand before, between or after them; and
\* the loader printed a warning for every malformed one and for no other.
C26_MalformedSkipped ==
    clocks # <<>> =>
      /\ clocks[1].entries = IF cronFile = <<>> THEN ExpectedFromTable ELSE ExpectedFromFile
      /\ LET act == ActiveRows(jobs)
         IN  \A i \in DOMAIN act :
               TableMessages(act)[i] \in Warnings <=> ~WellFormed(act[i].job_schedule)
      /\ \A i \in DOMAIN cronFile :
           FileMessages(cronFile)[i] \in Warnings <=> ~WellFormedLine(cronFile[i])
      /\ Len(TableMessages(ActiveRows(jobs))) = Len(ActiveRows(jobs))
      /\ Len(FileMessages(cronFile)) = Len(cronFile)

\* a table was loaded whose first and last rows are well-formed and armed
\* and whose middle row is malformed
C26_Witness ==
    /\ clocks # <<>>
    /\ Len(jobs) = 3
    /\ \A i \in {1, 2, 3} : jobs[i].job_status = 1
    /\ ~WellFormed(jobs[2].job_schedule)
    /\ {e.job : e \in Range(clocks[1].entries)} = {1, 3}

(***************************************************************************)
(* The two job sources of the file-backed program.                         *)
(***************************************************************************)
\* the line of cron_jobs.txt that belongs to a row of the jobs table
LineOfRow(r) == r.job_schedule \o Words[r.job_command]

\* C27: at every point, cron_jobs.txt and the jobs table hold the same jobs:
\* as many lines as rows, and a line is in the file exactly when a row of
\* its schedule and command is in the table.
C27_SourcesAgree ==
    /\ Len(cronFile) = Len(jobs)
    /\ Range(cronFile) = {LineOfRow(jobs[i]) : i \in DOMAIN jobs}

(***************************************************************************)
(* The schedule.                                                           *)
(***************************************************************************)
\* a field of a cron expression against a value of the calendar
FieldOk(tok, v) == tok = "*" \/ NumeralValue[tok] = v

\* cron(8)'s rule for a five-field entry at minute t: minute, hour and month
\* match, and the day matches: any day when day-of-month and day-of-week
\* are both "*"; the restricted one when one is "*"; either when none is
CronSemantics(expr, t) ==
    /\ FieldOk(expr[1], t.minute) /\ FieldOk(expr[2], t.hour) /\ FieldOk(expr[4], t.month)
    /\ IF expr[3] = "*" /\ expr[5] = "*" THEN TRUE
       ELSE IF expr[3] = "*" THEN FieldOk(expr[5], t.dow)
       ELSE IF expr[5] = "*" THEN FieldOk(expr[3], t.dom)
       ELSE FieldOk(expr[3], t.dom) \/ FieldOk(expr[5], t.dow)

\* C28: a tick starts an execution of the armed job's command exactly when
\* cron's semantics match the job's expression at the minute of the tick,
\* and then it starts one.
C28_DispatchMatchesCron ==
    [][IsTick =>
         /\ Dispatched # {} <=> CronSemantics(jobs[1].job_schedule, Instant(now'))
         /\ Cardinality(Dispatched) <= 1
         /\ \A e \in Dispatched : e.command = jobs[1].job_command /\ e.job = 1]_vars

\* the job of expression "30 2 * * *" was started at 02:30 of a day after
\* the first
C28_Witness ==
    /\ jobs[1].job_schedule = <<"30", "2", "*", "*", "*">>
    /\ now > MinutesPerDay
    /\ Instant(now).hour = 2 /\ Instant(now).minute = 30
    /\ Cardinality(execs) = 1

(***************************************************************************)
(* The two sink writes of one record.                                      *)
(***************************************************************************)
\* C29: as long as no sink write has failed, the records stand in the log in
\* the order of their rows in the tasks table (the order of the ids the
\* table assigned): no other execution writes a sink between the INSERT and
\* the log append of a record.
C29_LogOrderIsStoreOrder ==
    NoSinkFailure =>
      \A i, j \in DOMAIN tasks :
        i < j => \A a \in EntriesOf(tasks[i].task_uid), b \in EntriesOf(tasks[j].task_uid) :
                   a < b

(***************************************************************************)
(* The status of what is persisted.                                        *)
(***************************************************************************)
\* the executions whose command has ended
Completed == {e \in execs : e.pc # "run"}

\* C30: a goroutine whose command is running has built no record and
\* printed nothing; every row of the tasks table and every record line of
\* the log is that of an execution whose command has ended, and carries
\* the status Success or Failure that execution's record was built with.
C30_NoInProgressRecord ==
    /\ \A e \in execs \ Completed : e.js = NoStatus /\ e.stdout = <<>>
    /\ \A k \in DOMAIN tasks :
         /\ tasks[k].status \in {"Success", "Failure"}
         /\ \E e \in Completed : RecordOf(tasks[k]) = e.js /\ Printed(e, Inserted)
    /\ \A k \in DOMAIN log :
         log[k].kind # "start" =>
           /\ log[k].status \in {"Success", "Failure"}
           /\ \E e \in Completed :
                e.pc = "done" /\ e.js.uid = log[k].uid /\ e.js.status = log[k].status
    /\ Len(tasks) <= Cardinality(Completed)

\* the first execution's command is still running while the execution
\* started a minute later has completed and is stored and logged
C30_Witness ==
    /\ \E e \in execs : e.g = 1 /\ e.pc = "run"
    /\ \E e \in execs : e.g # 1 /\ e.pc = "done" /\ RowsOf(e.js.uid) # {}
                         /\ EntriesOf(e.js.uid) # {}

(***************************************************************************)
(* The recorder's mutex.                                                   *)
(***************************************************************************)
\* goroutine g has returned from job() with its record in the sinks whose
\* write did not fail
RecordedBy(g) ==
    \E e \in execs :
      /\ e.g = g /\ e.pc = "done"
      /\ Printed(e, Inserted) => RowsOf(e.js.uid) # {}
      /\ ~Printed(e, LogError) => EntriesOf(e.js.uid) # {}

\* C31: mu is held only by a goroutine inside a sink write or by a handler
\* inside its query, and free otherwise; and every execution whose command
\* has ended returns from job() with its record written, whatever status
\* requests and other executions take mu meanwhile.
C31_EventuallyRecorded ==
    /\ [](/\ \A e \in execs : mu = e.g <=> e.pc \in {"dbw", "logw"}
          /\ \A h \in Handlers : mu = HandlerLock(h) <=> req[h].pc = "query"
          /\ mu \in {0} \cup {e.g : e \in execs} \cup {HandlerLock(h) : h \in Handlers})
    /\ \A g \in Goroutines :
         (\E e \in execs : e.g = g /\ e.pc # "run") ~> RecordedBy(g)

\* an execution waits for mu, which a status request holds, while another
\* execution has returned
C31_Witness ==
    /\ \E h \in Handlers : mu = HandlerLock(h)
    /\ \E e \in execs : e.pc \in {"db", "log"}
    /\ \E e \in execs : e.pc = "done"

(***************************************************************************)
(* The cron instances of one process.                                      *)
(***************************************************************************)
\* the places (instance, entry) at which job j is armed
ArmedAt(j) ==
    {p \in {<<c, k>> : c \in DOMAIN clocks, k \in 1..MaxJobs} :
       p[2] \in DOMAIN clocks[p[1]].entries /\ clocks[p[1]].entries[p[2]].job = j}

\* C32: every armed job is armed at one place, one entry of one started
\* cron instance: a job registered at runtime in its own instance only, a
\* job loaded at startup in main's only; so a tick starts at most one
\* execution of a job.
C32_ArmedInOneInstance ==
    /\ [](\A j \in ArmedJobs : Cardinality(ArmedAt(j)) = 1)
    /\ [][IsTick => \A j \in ArmedJobs :
                      Cardinality({e \in Dispatched : e.job = j}) <= 1]_vars

\* two jobs were registered at runtime, each armed in an instance of its
\* own beside main's, and a tick has started both
C32_Witness ==
    /\ Len(clocks) = 3
    /\ Cardinality(ArmedJobs) = 2
    /\ \A j \in ArmedJobs : \E e \in execs : e.job = j

(***************************************************************************)
(* The order of the two sink writes of one execution.                      *)
(***************************************************************************)
\* the INSERT of execution e has been attempted: its result was printed
InsertAttempted(e) == Printed(e, Inserted) \/ Printed(e, InsertError)

\* C33: an execution that is at or past its log append has attempted its
\* INSERT before, and if the INSERT succeeded its row is in the tasks table;
\* so every record entry of the log is that of an execution whose INSERT
\* has been attempted.
C33_InsertBeforeLog ==
    /\ \A e \in execs :
         e.pc \in {"log", "logw", "done"} =>
           /\ InsertAttempted(e)
           /\ Printed(e, Inserted) => RowsOf(e.js.uid) # {}
    /\ \A k \in DOMAIN log :
         log[k].kind = "status" =>
           \E e \in execs : e.js.uid = log[k].uid /\ e.pc = "done" /\ InsertAttempted(e)

\* one execution's row is stored while its log entry is not yet written,
\* and another has its entry in the log after an INSERT that failed
C33_Witness ==
    /\ \E e \in execs : /\ e.pc \in {"log", "logw"}
                        /\ RowsOf(e.js.uid) # {} /\ EntriesOf(e.js.uid) = {}
    /\ \E e \in execs : /\ e.pc = "done" /\ Printed(e, InsertError)
                        /\ EntriesOf(e.js.uid) # {} /\ RowsOf(e.js.uid) = {}

(***************************************************************************)
(* The order of the rows.                                                  *)
(***************************************************************************)
\* C34: of two rows of the tasks table, the one with the larger id carries a
\* completion timestamp that is not earlier than the other's.
C34_StoreOrderIsCompletionOrder ==
    \A i, j \in DOMAIN tasks :
      i < j => ~Earlier(tasks[j].timestamp, tasks[i].timestamp)

====
